---------------------------- MODULE Spec2Model ----------------------------
(***************************************************************************)
(* GastoGrupal: the shared-expense ledger (expenses, participant shares,   *)
(* payments) kept in the Supabase tables and the two debt computations of  *)
(* SupabaseStorage, getDebtSummary and getSimplifiedDebts.                 *)
(*                                                                         *)
(* Money is counted in whole cents: the tables store DECIMAL(10, 2), so    *)
(* every stored amount is a whole number of cents.  The code adds and      *)
(* compares these amounts as JavaScript numbers; the model does the same   *)
(* arithmetic on the cent values, and toFixed(2) of a cent value is that   *)
(* cent value.                                                             *)
(***************************************************************************)
EXTENDS Integers, Sequences, FiniteSets, TLC

VARIABLES
    users,          \* table users: the ids in the order select('*') returns them
    expenses,       \* table expenses: id -> row, or NoRow
    participants,   \* table expense_participants: a set of rows
    payments,       \* table payments: id -> row, or NoRow
    wpc,            \* where the request that writes expenses stands
    wargs,          \* what that request still has to write
    rpc,            \* where the running debt computation stands
    rcall,          \* which computation runs: "summary" or "simplified"
    ridx,           \* index in users of the user whose sums are being read
    totals,         \* totalPaid, totalOwed, ... read so far for that user
    balances,       \* the Map balances: user -> net balance
    seen,           \* history: every table of sums the ledger held during the call
    writes,         \* history: how many writes other requests made during the call
    returned,       \* history: what the calls returned since the ledger last changed
    calc,           \* creditors, debtors, cursors and emitted debts of the loops
    profile,        \* table users: id -> the name and the active flag of the row
    ipc,            \* where each POST /api/initialize request stands
    tpc,            \* where each toggleUserActive call stands
    response        \* status of the last response of POST /api/expenses, 0 before any

vars == <<users, expenses, participants, payments, wpc, wargs,
          rpc, rcall, ridx, totals, balances, seen, writes, returned, calc,
          profile, ipc, tpc, response>>

ledgerVars == <<expenses, participants, payments, wpc, wargs>>
readerVars == <<rpc, rcall, ridx, totals, seen, writes, returned>>
userVars   == <<profile, ipc, tpc>>

---------------------------------------------------------------------------
(* Bounds of the model *)

MaxExpenses == 1        \* rows of expenses
MaxPayments == 1        \* rows of payments
MaxBal      == 4        \* largest balance magnitude (cents) of a drawn balance set
MaxWrites   == 1        \* writes of other requests during one debt computation
MaxCalls    == 2        \* debt computations run one after the other on one ledger

(* 0.01, the tolerance of every comparison of the two computations *)
Epsilon == 1

NoRow == [none |-> TRUE]

LedgerUsers == <<"A", "B", "C">>
FiveUsers   == <<"A", "B", "C", "D", "E">>

(* amounts of a request body: POST /api/expenses takes any string the
   DECIMAL(10, 2) column stores, a negative one too *)
ExpenseAmounts == {3000, 1000, -3000}
ShareAmounts   == {1000}
(* amounts of a POST /api/payments body: any the request may carry *)
PaymentAmounts == {1000, 0}

ExpenseIds == 1..MaxExpenses
PaymentIds == 1..MaxPayments

---------------------------------------------------------------------------
(* Helpers *)

Range(s) == {s[k] : k \in DOMAIN s}

Abs(x) == IF x < 0 THEN -x ELSE x

Min(a, b) == IF a <= b THEN a ELSE b

RECURSIVE SumAmounts(_)
(* reduce((sum, row) => sum + parseFloat(row.amount), 0) over a set of rows *)
SumAmounts(rows) ==
    IF rows = {} THEN 0
    ELSE LET r == CHOOSE x \in rows : TRUE
         IN  r.amount + SumAmounts(rows \ {r})

---------------------------------------------------------------------------
(* The four sums read for one user, as the queries select them *)

ExpenseRows(exps) == {[id |-> e, payer_id |-> exps[e].payer_id, amount |-> exps[e].amount] :
                        e \in {x \in DOMAIN exps : exps[x] # NoRow}}

PaymentRows(pays) == {[id |-> p, from_user_id |-> pays[p].from_user_id,
                       to_user_id |-> pays[p].to_user_id, amount |-> pays[p].amount] :
                        p \in {x \in DOMAIN pays : pays[x] # NoRow}}

PaidExpenses(u)       == {r \in ExpenseRows(expenses) : r.payer_id = u}
OwedParticipations(u) == {r \in participants : r.user_id = u}
PaymentsMade(u)       == {r \in PaymentRows(payments) : r.from_user_id = u}
PaymentsReceived(u)   == {r \in PaymentRows(payments) : r.to_user_id = u}

NoTotals == [totalPaid |-> 0, totalOwed |-> 0,
             totalPaymentsMade |-> 0, totalPaymentsReceived |-> 0]

(* the sums of the whole ledger as it stands, one record per user *)
LedgerSums == [u \in Range(users) |->
                 [totalPaid             |-> SumAmounts(PaidExpenses(u)),
                  totalOwed             |-> SumAmounts(OwedParticipations(u)),
                  totalPaymentsMade     |-> SumAmounts(PaymentsMade(u)),
                  totalPaymentsReceived |-> SumAmounts(PaymentsReceived(u))]]

(* mutant: the two payment sums taken with the wrong sign *)
SummaryBalancePaymentsSwapped(t) ==
    (t.totalPaid + t.totalPaymentsReceived) - (t.totalOwed + t.totalPaymentsMade)

(* mutant: the payments left out, as getSimplifiedDebts leaves them out *)
SummaryBalanceNoPayments(t) == t.totalPaid - t.totalOwed

(* getDebtSummary's balance of one user from its four sums *)
SummaryBalance(t) ==
    (t.totalPaid - t.totalPaymentsReceived) - (t.totalOwed - t.totalPaymentsMade)

(* getSimplifiedDebts's balance of one user: it reads two sums only *)
SimplifiedBalance(t) == t.totalPaid - t.totalOwed

---------------------------------------------------------------------------
(* Partition into creditors and debtors, in the Map's insertion order *)

IsCreditor(balance) == balance > Epsilon
IsDebtor(balance)   == balance < -Epsilon

PartitionCreditors(us, bal) ==
    LET s == SelectSeq(us, LAMBDA u : IsCreditor(bal[u]))
    IN  [k \in 1..Len(s) |-> [user |-> s[k], amount |-> bal[s[k]]]]

(* mutant: every user beyond 0.01 pushed to debtors, creditors too *)
PartitionDebtorsNoElse(us, bal) ==
    LET s == SelectSeq(us, LAMBDA u : Abs(bal[u]) > Epsilon)
    IN  [k \in 1..Len(s) |-> [user |-> s[k], amount |-> Abs(bal[s[k]])]]

PartitionDebtors(us, bal) ==
    LET s == SelectSeq(us, LAMBDA u : ~IsCreditor(bal[u]) /\ IsDebtor(bal[u]))
    IN  [k \in 1..Len(s) |-> [user |-> s[k], amount |-> Abs(bal[s[k]])]]

(* mutant: a sort that is not stable, equal amounts come out reversed *)
RECURSIVE InsertDescTiesReversed(_, _)
InsertDescTiesReversed(x, s) ==
    IF s = <<>> THEN <<x>>
    ELSE IF Head(s).amount > x.amount
      THEN <<Head(s)>> \o InsertDescTiesReversed(x, Tail(s))
    ELSE <<x>> \o s

(* Array.prototype.sort((a, b) => b.amount - a.amount): descending, stable *)
RECURSIVE InsertDesc(_, _)
InsertDesc(x, s) ==
    IF s = <<>> THEN <<x>>
    ELSE IF Head(s).amount >= x.amount THEN <<Head(s)>> \o InsertDesc(x, Tail(s))
    ELSE <<x>> \o s

RECURSIVE SortDesc(_)
SortDesc(s) ==
    IF s = <<>> THEN <<>>
    ELSE InsertDesc(s[Len(s)], SortDesc(SubSeq(s, 1, Len(s) - 1)))

IdleCalc == [call |-> "none", pc |-> "idle", creditors |-> <<>>, debtors |-> <<>>,
             i |-> 0, j |-> 0, remainingDebt |-> 0, debts |-> <<>>]

---------------------------------------------------------------------------
(* getSimplifiedDebts: the two-cursor loop.  i and j count from 0 as in    *)
(* the code; creditors[i] of the code is creditors[i + 1] here.            *)

SimplifiedCond(c) == c.i < Len(c.creditors) /\ c.j < Len(c.debtors)

(* mutant: the partition compares with 0, not with 0.01 *)
SimplifiedStartNoEpsilon(us, bal) ==
    LET cs == SelectSeq(us, LAMBDA u : bal[u] > 0)
        ds == SelectSeq(us, LAMBDA u : bal[u] < 0)
        c  == [IdleCalc EXCEPT
                 !.call = "simplified",
                 !.creditors = SortDesc([k \in 1..Len(cs) |->
                                           [user |-> cs[k], amount |-> bal[cs[k]]]]),
                 !.debtors = SortDesc([k \in 1..Len(ds) |->
                                         [user |-> ds[k], amount |-> -bal[ds[k]]]])]
    IN  [c EXCEPT !.pc = IF SimplifiedCond(c) THEN "loop" ELSE "done"]

(* mutant: the list of suggestions lives outside the function and is never
   emptied, so a call adds its suggestions to those of the call before *)
SimplifiedStartKeepsDebts(us, bal) ==
    LET c == [IdleCalc EXCEPT !.call = "simplified",
                              !.creditors = SortDesc(PartitionCreditors(us, bal)),
                              !.debtors = SortDesc(PartitionDebtors(us, bal)),
                              !.debts = IF calc.call = "simplified" THEN calc.debts ELSE <<>>]
    IN  [c EXCEPT !.pc = IF SimplifiedCond(c) THEN "loop" ELSE "done"]

SimplifiedStart(us, bal) ==
    LET c == [IdleCalc EXCEPT !.call = "simplified",
                              !.creditors = SortDesc(PartitionCreditors(us, bal)),
                              !.debtors = SortDesc(PartitionDebtors(us, bal))]
    IN  [c EXCEPT !.pc = IF SimplifiedCond(c) THEN "loop" ELSE "done"]

(* mutant: Math.max for Math.min *)
SimplifiedAmountMax(creditor, debtor) ==
    IF creditor.amount >= debtor.amount THEN creditor.amount ELSE debtor.amount

(* const amount = Math.min(creditor.amount, debtor.amount) *)
SimplifiedAmount(creditor, debtor) == Min(creditor.amount, debtor.amount)

(* mutant: a remainder of exactly 0.01 counted as exhausted *)
ExhaustedAtEpsilon(amount) == amount <= Epsilon

(* mutant: the cursor moves only below zero *)
ExhaustedBelowZero(amount) == amount < 0

(* if (x.amount < 0.01) cursor++ *)
Exhausted(amount) == amount < Epsilon

SimplifiedIteration(c) ==
    LET creditor == c.creditors[c.i + 1]
        debtor   == c.debtors[c.j + 1]
        amount   == SimplifiedAmount(creditor, debtor)
        \* amount.toFixed(2): the cents of a whole number of cents
        pushed   == [debtor |-> debtor.user, creditor |-> creditor.user, amount |-> amount]
        c2 == [c EXCEPT !.debts = Append(@, pushed),
                        !.creditors[c.i + 1].amount = @ - amount,
                        !.debtors[c.j + 1].amount = @ - amount,
                        !.i = IF Exhausted(creditor.amount - amount) THEN @ + 1 ELSE @,
                        !.j = IF Exhausted(debtor.amount - amount) THEN @ + 1 ELSE @]
    IN  [c2 EXCEPT !.pc = IF SimplifiedCond(c2) THEN "loop" ELSE "done"]

---------------------------------------------------------------------------
(* getDebtSummary: for each debtor, for each creditor.  j is the position  *)
(* of the outer loop in debtors, i that of the inner loop in creditors.    *)

SummaryStart(us, bal) ==
    LET cs == PartitionCreditors(us, bal)
        ds == PartitionDebtors(us, bal)
    IN  [IdleCalc EXCEPT !.call = "summary",
                         !.creditors = cs,
                         !.debtors = ds,
                         !.remainingDebt = IF ds = <<>> THEN 0 ELSE ds[1].amount,
                         !.pc = IF ds = <<>> \/ cs = <<>> THEN "done" ELSE "loop"]

(* mutant: only the debtor is tested, a creditor with nothing left is paired *)
SummarySkipDebtOnly(remainingDebt, creditor) == remainingDebt <= Epsilon

(* if (remainingDebt <= 0.01 || creditor.amount <= 0.01) continue *)
SummarySkip(remainingDebt, creditor) ==
    remainingDebt <= Epsilon \/ creditor.amount <= Epsilon

SummaryIteration(c) ==
    LET creditor == c.creditors[c.i + 1]
        debtor   == c.debtors[c.j + 1]
        skip     == SummarySkip(c.remainingDebt, creditor)
        payment  == Min(c.remainingDebt, creditor.amount)
        pushed   == [debtor |-> debtor.user, creditor |-> creditor.user, amount |-> payment]
        c2 == IF skip THEN c
              ELSE [c EXCEPT !.debts = Append(@, pushed),
                             !.remainingDebt = @ - payment,
                             !.creditors[c.i + 1].amount = @ - payment]
    IN  IF c.i + 1 < Len(c.creditors)
          THEN [c2 EXCEPT !.i = @ + 1]
        ELSE IF c.j + 1 < Len(c.debtors)
          THEN [c2 EXCEPT !.i = 0, !.j = @ + 1,
                          !.remainingDebt = c.debtors[c.j + 2].amount]
        ELSE [c2 EXCEPT !.i = 0, !.j = @ + 1, !.pc = "done"]

Iteration(c) == IF c.call = "simplified" THEN SimplifiedIteration(c)
                ELSE SummaryIteration(c)

(* a whole call, run to its return *)
RECURSIVE RunCalc(_)
RunCalc(c) == IF c.pc = "done" THEN c ELSE RunCalc(Iteration(c))

---------------------------------------------------------------------------
(* The two computations applied to a drawn set of balances (their loops    *)
(* step by step): users are the five of FiveUsers or none, no ledger rows. *)

EmptyLedger ==
    /\ expenses = [e \in ExpenseIds |-> NoRow]
    /\ participants = {}
    /\ payments = [p \in PaymentIds |-> NoRow]
    /\ wpc = "idle"
    /\ wargs = NoRow

(* the users as they were created, no request on them running, and no
   POST /api/expenses answered yet *)
IdleUsers ==
    /\ profile = [u \in Range(users) |-> [name |-> u, active |-> TRUE]]
    /\ ipc = <<>>
    /\ tpc = <<>>
    /\ response = 0

IdleReader ==
    /\ rpc = "idle"
    /\ rcall = "none"
    /\ ridx = 0
    /\ totals = NoTotals
    /\ seen = {}
    /\ writes = 0
    /\ returned = <<>>

InitDebts ==
    /\ users \in {FiveUsers, <<>>}
    /\ EmptyLedger
    /\ IdleReader
    /\ IdleUsers
    /\ balances \in [Range(users) -> (-MaxBal)..MaxBal]
    /\ calc = IdleCalc

StartSimplified ==
    /\ calc.pc = "idle"
    /\ calc' = SimplifiedStart(users, balances)
    /\ UNCHANGED <<users, userVars, response, ledgerVars, readerVars, balances>>

StartSummary ==
    /\ calc.pc = "idle"
    /\ calc' = SummaryStart(users, balances)
    /\ UNCHANGED <<users, userVars, response, ledgerVars, readerVars, balances>>

LoopIteration ==
    /\ calc.pc = "loop"
    /\ calc' = Iteration(calc)
    /\ UNCHANGED <<users, userVars, response, ledgerVars, readerVars, balances>>

NextDebts == StartSimplified \/ StartSummary \/ LoopIteration

SpecDebts == InitDebts /\ [][NextDebts]_vars

---------------------------------------------------------------------------
(* The ledger: the requests that write the tables.  Each await of a        *)
(* handler that is followed by another write is a step of its own.         *)

(* a field of a PUT body: <<>> when undefined, <<v>> when given as v *)
Optional(S) == {<<>>} \cup {<<v>> : v \in S}

ExpenseUpdates == [payerId : Optional(Range(LedgerUsers)), amount : Optional(ExpenseAmounts)]

(* the participants of a request body: user -> share *)
ParticipantInputs ==
    UNION {[S -> ShareAmounts] : S \in (SUBSET Range(LedgerUsers)) \ {{}}}

ParticipantInserts(id, parts) ==
    {[expense_id |-> id, user_id |-> u, amount |-> parts[u]] : u \in DOMAIN parts}

(* the participants of a PUT body, which may leave them out *)
ParticipantUpdates ==
    {[given |-> FALSE, list |-> <<>>]} \cup {[given |-> TRUE, list |-> ps] : ps \in ParticipantInputs}

(* gen_random_uuid(): an id no row of the table has *)
FreeId(table) == CHOOSE x \in DOMAIN table :
                    table[x] = NoRow /\ \A y \in DOMAIN table : table[y] = NoRow => x <= y

HasFree(table) == \E x \in DOMAIN table : table[x] = NoRow

(* a debt computation is between two of its queries *)
Reading == rpc \in {"paid", "owed", "made", "received"}

(* a write leaves the running debt computation as it is; the history notes
   the sums the ledger holds after a write made while a computation runs *)
Observed ==
    /\ UNCHANGED <<users, userVars, rpc, rcall, ridx, totals, balances, calc>>
    /\ seen' = IF Reading THEN seen \cup {LedgerSums'} ELSE seen
    /\ writes' = IF Reading THEN writes + 1 ELSE writes
    /\ returned' = <<>>

(* createExpense: insert into expenses, then (next step) the participants *)
CreateExpense(payerId, amount, parts) ==
    /\ wpc = "idle"
    /\ HasFree(expenses)
    /\ LET id == FreeId(expenses)
       IN  /\ expenses' = [expenses EXCEPT ![id] = [payer_id |-> payerId, amount |-> amount]]
           /\ wargs' = [id |-> id, participants |-> parts]
    /\ wpc' = "createExpense"
    /\ UNCHANGED <<participants, payments, response>>
    /\ Observed

(* insert into expense_participants: the rows reference expenses(id) *)
InsertParticipants ==
    /\ wpc \in {"createExpense", "updateExpenseInsert"}
    /\ expenses[wargs.id] # NoRow
    /\ participants' = participants \cup ParticipantInserts(wargs.id, wargs.participants)
    /\ wpc' = "idle"
    /\ wargs' = NoRow
    \* res.status(201).json(expense), once createExpense has returned
    /\ response' = IF wpc = "createExpense" THEN 201 ELSE response
    /\ UNCHANGED <<expenses, payments>>
    /\ Observed

(* if (participantsError) throw / if (deleteError) throw / if (insertError) throw:
   the handler ends there and what it wrote before stays written *)
WriteError ==
    /\ wpc \in {"createExpense", "updateExpenseDelete", "updateExpenseInsert"}
    /\ wpc' = "idle"
    /\ wargs' = NoRow
    \* res.status(500).json({ error: "Failed to create expense" })
    /\ response' = IF wpc = "createExpense" THEN 500 ELSE response
    /\ UNCHANGED <<expenses, participants, payments>>
    /\ Observed

(* updateExpense: update the row with the fields given *)
UpdateExpense(id, expense, parts) ==
    /\ wpc = "idle"
    /\ expenses[id] # NoRow
    /\ expenses' = [expenses EXCEPT ![id] =
                      [payer_id |-> IF expense.payerId # <<>> THEN expense.payerId[1]
                                    ELSE @.payer_id,
                       amount   |-> IF expense.amount # <<>> THEN expense.amount[1]
                                    ELSE @.amount]]
    /\ IF parts.given
         THEN wpc' = "updateExpenseDelete" /\ wargs' = [id |-> id, participants |-> parts.list]
         ELSE wpc' = "idle" /\ wargs' = NoRow
    /\ UNCHANGED <<participants, payments, response>>
    /\ Observed

(* updateExpense: delete the existing participants of the expense *)
UpdateExpenseDelete ==
    /\ wpc = "updateExpenseDelete"
    /\ participants' = {r \in participants : r.expense_id # wargs.id}
    /\ wpc' = "updateExpenseInsert"
    /\ UNCHANGED <<expenses, payments, wargs, response>>
    /\ Observed

(* deleteExpense: the row, and by ON DELETE CASCADE its participants *)
DeleteExpense(id) ==
    /\ expenses[id] # NoRow
    /\ expenses' = [expenses EXCEPT ![id] = NoRow]
    /\ participants' = {r \in participants : r.expense_id # id}
    /\ UNCHANGED <<payments, wpc, wargs, response>>
    /\ Observed

(* mutant: the table without its constraint different_users *)
PaymentChecksAmountOnly(fromUserId, toUserId, amount) == amount > 0

(* the table's CHECK (amount > 0) and CHECK (from_user_id != to_user_id) *)
PaymentChecks(fromUserId, toUserId, amount) == amount > 0 /\ fromUserId # toUserId

CreatePayment(fromUserId, toUserId, amount) ==
    /\ HasFree(payments)
    /\ PaymentChecks(fromUserId, toUserId, amount)
    /\ payments' = [payments EXCEPT ![FreeId(payments)] =
                      [from_user_id |-> fromUserId, to_user_id |-> toUserId,
                       amount |-> amount]]
    /\ UNCHANGED <<expenses, participants, wpc, wargs, response>>
    /\ Observed

DeletePayment(id) ==
    /\ payments[id] # NoRow
    /\ payments' = [payments EXCEPT ![id] = NoRow]
    /\ UNCHANGED <<expenses, participants, wpc, wargs, response>>
    /\ Observed

Next ==
    \/ \E u \in Range(users), a \in ExpenseAmounts, ps \in ParticipantInputs :
          CreateExpense(u, a, ps)
    \/ InsertParticipants
    \/ WriteError
    \/ \E id \in ExpenseIds, e \in ExpenseUpdates, ps \in ParticipantUpdates :
          UpdateExpense(id, e, ps)
    \/ UpdateExpenseDelete
    \/ \E id \in ExpenseIds : DeleteExpense(id)
    \/ \E f \in Range(users), t \in Range(users), a \in PaymentAmounts :
          CreatePayment(f, t, a)
    \/ \E id \in PaymentIds : DeletePayment(id)

---------------------------------------------------------------------------
(* One call of getDebtSummary or getSimplifiedDebts: a query per step.     *)

User == users[ridx]

(* balances.set(user.id, ...) and the next turn of the for loop; after the
   last user the partition and the loops run without another await *)
SetBalance(t) ==
    LET b    == IF rcall = "summary" THEN SummaryBalance(t) ELSE SimplifiedBalance(t)
        bals == [u \in DOMAIN balances \cup {User} |-> IF u = User THEN b ELSE balances[u]]
    IN  /\ balances' = bals
        /\ totals' = NoTotals
        /\ IF ridx < Len(users)
             THEN /\ ridx' = ridx + 1
                  /\ rpc' = "paid"
                  /\ calc' = calc
                  /\ returned' = returned
             ELSE /\ ridx' = 0
                  /\ rpc' = "done"
                  /\ calc' = RunCalc(IF rcall = "summary" THEN SummaryStart(users, bals)
                                     ELSE SimplifiedStart(users, bals))
                  /\ returned' = Append(returned, [call |-> rcall, debts |-> calc'.debts])

(* supabase.from('users').select('*') *)
ReadUsers(call) ==
    /\ rpc = "idle"
    /\ rcall' = call
    /\ rpc' = "paid"
    /\ ridx' = 1
    /\ totals' = NoTotals
    /\ balances' = [u \in {} |-> 0]
    /\ calc' = IdleCalc
    /\ seen' = {LedgerSums}
    /\ writes' = 0
    /\ UNCHANGED <<users, userVars, response, ledgerVars, returned>>

(* a call made after another has returned and nothing was written since.
   The locals of the new call come to be after its last query (lines 615,
   688); until then calc is what the previous call left *)
ReadUsersAgain(call) ==
    /\ rpc = "done"
    /\ Len(returned) < MaxCalls
    /\ rcall' = call
    /\ rpc' = "paid"
    /\ ridx' = 1
    /\ totals' = NoTotals
    /\ balances' = [u \in {} |-> 0]
    /\ seen' = {LedgerSums}
    /\ writes' = 0
    /\ UNCHANGED <<users, userVars, response, ledgerVars, returned, calc>>

ReadPaid ==
    /\ rpc = "paid"
    /\ totals' = [totals EXCEPT !.totalPaid = SumAmounts(PaidExpenses(User))]
    /\ rpc' = "owed"
    /\ UNCHANGED <<users, userVars, response, ledgerVars, rcall, ridx, balances, seen, writes, returned, calc>>

ReadOwed ==
    /\ rpc = "owed"
    /\ LET t == [totals EXCEPT !.totalOwed = SumAmounts(OwedParticipations(User))]
       IN  IF rcall = "summary"
             THEN /\ totals' = t
                  /\ rpc' = "made"
                  /\ UNCHANGED <<ridx, balances, returned, calc>>
             ELSE SetBalance(t)
    /\ UNCHANGED <<users, userVars, response, ledgerVars, rcall, seen, writes>>

ReadPaymentsMade ==
    /\ rpc = "made"
    /\ totals' = [totals EXCEPT !.totalPaymentsMade = SumAmounts(PaymentsMade(User))]
    /\ rpc' = "received"
    /\ UNCHANGED <<users, userVars, response, ledgerVars, rcall, ridx, balances, seen, writes, returned, calc>>

ReadPaymentsReceived ==
    /\ rpc = "received"
    /\ SetBalance([totals EXCEPT !.totalPaymentsReceived =
                                     SumAmounts(PaymentsReceived(User))])
    /\ UNCHANGED <<users, userVars, response, ledgerVars, rcall, seen, writes>>

(* The ledger alone: requests that write, no debt computation running *)

Init ==
    /\ users = LedgerUsers
    /\ EmptyLedger
    /\ IdleReader
    /\ IdleUsers
    /\ balances = [u \in {} |-> 0]
    /\ calc = IdleCalc

Spec == Init /\ [][Next]_vars

(* getDebtSummary and getSimplifiedDebts on the ledger as it stands, when
   nothing is written while they run *)
BalancesOf(call) ==
    [u \in Range(users) |-> IF call = "summary" THEN SummaryBalance(LedgerSums[u])
                            ELSE SimplifiedBalance(LedgerSums[u])]

DebtSummaryOf == RunCalc(SummaryStart(users, BalancesOf("summary"))).debts

SimplifiedDebtsOf == RunCalc(SimplifiedStart(users, BalancesOf("simplified"))).debts

(* what a call hands to its caller: return debts / return simplifiedDebts.
   Between the queries and the return no statement throws or reports
   anything: the list is the whole result *)
CallResult(debts) == [error |-> "none", debts |-> debts]

GetDebtSummary     == CallResult(DebtSummaryOf)
GetSimplifiedDebts == CallResult(SimplifiedDebtsOf)

---------------------------------------------------------------------------
(* Payments on a ledger of expenses: the expenses and shares are any that
   the requests above leave behind (createExpense stores whatever shares it
   is given, and none when the insert of the participants fails); only
   payments are then created and deleted. *)

ParticipantRows(shares) ==
    [expense_id : ExpenseIds, user_id : Range(LedgerUsers), amount : shares]

(* the expense amounts of the ledgers on which payments are made *)
PayExpenseAmounts == {3000}

DrawnLedger(amounts, shares) ==
    /\ users = LedgerUsers
    /\ expenses \in [ExpenseIds -> {NoRow} \cup
                        [payer_id : Range(LedgerUsers), amount : amounts]]
    /\ participants \in SUBSET {r \in ParticipantRows(shares) : expenses[r.expense_id] # NoRow}
    /\ payments = [p \in PaymentIds |-> NoRow]
    /\ wpc = "idle"
    /\ wargs = NoRow
    /\ IdleReader
    /\ IdleUsers
    /\ balances = [u \in {} |-> 0]
    /\ calc = IdleCalc

InitPay == DrawnLedger(PayExpenseAmounts, ShareAmounts)

NextPay ==
    \/ \E f \in Range(users), t \in Range(users), a \in PaymentAmounts :
          CreatePayment(f, t, a)
    \/ \E id \in PaymentIds : DeletePayment(id)

SpecPay == InitPay /\ [][NextPay]_vars

---------------------------------------------------------------------------
(* One debt computation with the writes of other requests between its
   queries.  It starts on a ledger the requests above reach: scenario 1 of
   the specification (A paid 30.00; A, B and C owe 10.00 each), with or
   without a payment of 10.00 from B to A. *)

Scenario1 ==
    /\ expenses = [e \in ExpenseIds |-> IF e = 1 THEN [payer_id |-> "A", amount |-> 3000]
                                        ELSE NoRow]
    /\ participants = {[expense_id |-> 1, user_id |-> u, amount |-> 1000] :
                          u \in {"A", "B", "C"}}
    /\ wpc = "idle"
    /\ wargs = NoRow

NoPayments == payments = [p \in PaymentIds |-> NoRow]

OnePaymentBToA ==
    payments = [p \in PaymentIds |-> IF p = 1
                   THEN [from_user_id |-> "B", to_user_id |-> "A", amount |-> 1000]
                   ELSE NoRow]

InitRead ==
    /\ users = LedgerUsers
    /\ Scenario1
    /\ NoPayments \/ OnePaymentBToA
    /\ IdleReader
    /\ IdleUsers
    /\ balances = [u \in {} |-> 0]
    /\ calc = IdleCalc

(* a write of another request between two queries of the call *)
WriteDuringCall ==
    /\ Reading
    /\ writes < MaxWrites
    /\ Next

NextRead ==
    \/ WriteDuringCall
    \/ \E call \in {"summary", "simplified"} : ReadUsers(call)
    \/ ReadPaid
    \/ ReadOwed
    \/ ReadPaymentsMade
    \/ ReadPaymentsReceived

SpecRead == InitRead /\ [][NextRead]_vars

---------------------------------------------------------------------------
(* Debt computations one after the other on a ledger nobody writes: the
   ledger is any that the requests leave behind, without payments. *)

InitCalls == DrawnLedger(ExpenseAmounts, ShareAmounts)

NextCalls ==
    \/ \E call \in {"summary", "simplified"} : ReadUsers(call)
    \/ \E call \in {"summary", "simplified"} : ReadUsersAgain(call)
    \/ ReadPaid
    \/ ReadOwed
    \/ ReadPaymentsMade
    \/ ReadPaymentsReceived

SpecCalls == InitCalls /\ [][NextCalls]_vars

---------------------------------------------------------------------------
(* What a list of suggestions does to a set of balances *)

RECURSIVE SumAs(_, _, _)
(* total of the amounts of the suggestions of ds that name u as role *)
SumAs(ds, role, u) ==
    IF ds = <<>> THEN 0
    ELSE (IF Head(ds)[role] = u THEN Head(ds).amount ELSE 0) + SumAs(Tail(ds), role, u)

(* the balance of u once every suggestion of ds has been paid *)
Residual(bal, ds, u) == bal[u] + SumAs(ds, "debtor", u) - SumAs(ds, "creditor", u)

RECURSIVE SumBalances(_, _)
SumBalances(us, bal) ==
    IF us = <<>> THEN 0 ELSE bal[Head(us)] + SumBalances(Tail(us), bal)

Done(call)    == calc.call = call /\ calc.pc = "done"
Running(call) == calc.call = call /\ calc.pc \in {"loop", "done"}

(* C3: for balances in whole cents that sum to zero, paying every
   suggestion of getSimplifiedDebts leaves every balance within 0.01 of zero *)
C3_SimplifiedSettles ==
    (Done("simplified") /\ SumBalances(users, balances) = 0)
        => \A u \in Range(users) : Abs(Residual(balances, calc.debts, u)) <= Epsilon

(* C7: for balances in whole cents that sum to zero, paying every
   suggestion of getDebtSummary leaves every balance within 0.01 of zero *)
C7_SummarySettles ==
    (Done("summary") /\ SumBalances(users, balances) = 0)
        => \A u \in Range(users) : Abs(Residual(balances, calc.debts, u)) <= Epsilon

---------------------------------------------------------------------------
(* C6: with C >= 1 creditors and D >= 1 debtors getSimplifiedDebts emits at
   most C + D - 1 suggestions, every iteration having advanced a cursor
   (so never more suggestions than cursor advances) *)
C6_AtMostCPlusDMinus1 ==
    Running("simplified") =>
        /\ Len(calc.debts) <= calc.i + calc.j
        /\ (Len(calc.creditors) >= 1 /\ Len(calc.debtors) >= 1)
              => Len(calc.debts) <= Len(calc.creditors) + Len(calc.debtors) - 1

C6_Witness ==
    /\ Done("simplified")
    /\ Len(calc.creditors) = 2 /\ Len(calc.debtors) = 3
    /\ Len(calc.debts) = 4

---------------------------------------------------------------------------
(* C8: in both computations every emitted amount is strictly positive and
   at most what its debtor and its creditor had left when it was emitted:
   what is left of a party is its magnitude minus the amounts naming it and
   is never negative, so the amounts naming a user sum to at most the
   magnitude of that user's balance *)
C8_AmountsWithinRemaining ==
    calc.pc \in {"loop", "done"} =>
        /\ \A k \in DOMAIN calc.debts : calc.debts[k].amount > 0
        /\ \A k \in DOMAIN calc.creditors :
              LET cr == calc.creditors[k]
              IN  /\ cr.amount >= 0
                  /\ cr.amount = balances[cr.user] - SumAs(calc.debts, "creditor", cr.user)
        /\ \A k \in DOMAIN calc.debtors :
              LET de   == calc.debtors[k]
                  left == Abs(balances[de.user]) - SumAs(calc.debts, "debtor", de.user)
              IN  /\ left >= 0
                  /\ calc.call = "simplified" => de.amount = left
                  /\ (calc.call = "summary" /\ calc.pc = "loop" /\ k = calc.j + 1)
                        => calc.remainingDebt = left
        /\ \A u \in Range(users) :
              SumAs(calc.debts, "debtor", u) + SumAs(calc.debts, "creditor", u)
                  <= Abs(balances[u])

C8_Witness ==
    /\ calc.pc = "done"
    /\ Len(calc.debts) >= 3
    /\ \E k \in DOMAIN calc.creditors : calc.creditors[k].amount > 0

---------------------------------------------------------------------------
(* C9: no suggestion of either computation names one user as debtor and
   as creditor *)
C9_NoSelfSettlement ==
    \A k \in DOMAIN calc.debts : calc.debts[k].debtor # calc.debts[k].creditor

C9_Witness ==
    /\ calc.pc = "done"
    /\ Len(calc.debts) >= 2
    /\ \E u \in Range(users) : balances[u] = 0

---------------------------------------------------------------------------
(* C1: on every ledger the requests reach, the net balances that
   getDebtSummary computes sum to within 0.01 of zero *)
C1_BalancesSumToZero ==
    wpc = "idle" => Abs(SumBalances(users, BalancesOf("summary"))) <= Epsilon

---------------------------------------------------------------------------
(* C2: the net balance of getDebtSummary is (expenses paid - payments
   received) - (shares owed - payments sent), so a payment of x from B to A
   raises B's balance by x, lowers A's by x and changes no other balance *)

Paid(u)     == SumAmounts({r \in ExpenseRows(expenses) : r.payer_id = u})
Received(u) == SumAmounts({r \in PaymentRows(payments) : r.to_user_id = u})
Owed(u)     == SumAmounts({r \in participants : r.user_id = u})
Sent(u)     == SumAmounts({r \in PaymentRows(payments) : r.from_user_id = u})

C2_Formula ==
    LET balance == BalancesOf("summary")
    IN  \A u \in Range(users) :
            balance[u] = (Paid(u) - Received(u)) - (Owed(u) - Sent(u))

(* a step that inserts the row p of payments: a createPayment *)
C2_PaymentStep ==
    \A p \in PaymentIds :
        (payments[p] = NoRow /\ payments'[p] # NoRow) =>
            LET f == payments'[p].from_user_id
                t == payments'[p].to_user_id
                x == payments'[p].amount
                before == BalancesOf("summary")
                after  == BalancesOf("summary")'
            IN  \A u \in Range(users) :
                    after[u] = before[u] + (IF u = f THEN x ELSE 0)
                                         - (IF u = t THEN x ELSE 0)

C2_BalanceFormula == [](C2_Formula) /\ [][C2_PaymentStep]_vars

C2_Witness ==
    /\ Scenario1 /\ OnePaymentBToA
    /\ BalancesOf("summary") = [u \in Range(users) |->
                                  IF u = "A" THEN 1000 ELSE IF u = "B" THEN 0 ELSE -1000]

---------------------------------------------------------------------------
(* C4: getSimplifiedDebts partitions the payment-inclusive balances: with
   A paid 30, A, B and C owing 10 each and a payment of 10.00 from B to A
   recorded, it returns the one suggestion C to A for 10.00 *)
C4_PaymentsReduceSimplified ==
    (Scenario1 /\ OnePaymentBToA) =>
        SimplifiedDebtsOf = <<[debtor |-> "C", creditor |-> "A", amount |-> 1000]>>

---------------------------------------------------------------------------
(* C10: one call computes from a single snapshot of the ledger: the
   balances it ends with are those of the sums the ledger held at one
   moment of the call, so a concurrent write shows in all of them or in none *)
C10_SingleSnapshot ==
    rpc = "done" =>
        \E sums \in seen :
            balances = [u \in Range(users) |->
                          IF rcall = "summary" THEN SummaryBalance(sums[u])
                          ELSE SimplifiedBalance(sums[u])]

---------------------------------------------------------------------------
(* Other settlements by direct debtor-to-creditor transfers: split the
   users beyond 0.01 into groups that each sum to zero and settle each
   group on its own with the same two-cursor loop. *)

Beyond == {u \in Range(users) : IsCreditor(balances[u]) \/ IsDebtor(balances[u])}

SumOver(S) == SumBalances(SelectSeq(users, LAMBDA u : u \in S), balances)

(* U can be settled: no balance is dropped by the partition and the total
   of the creditors equals the total of the debtors *)
Settleable ==
    /\ \A u \in Range(users) : balances[u] = 0 \/ u \in Beyond
    /\ SumOver(Beyond) = 0

(* a group that sums to zero holds a creditor and a debtor *)
MaxGroups == IF Cardinality(Beyond) < 2 THEN 1 ELSE Cardinality(Beyond) \div 2

Groupings ==
    {g \in [Beyond -> 1..MaxGroups] :
        \A n \in {g[u] : u \in Beyond} : SumOver({u \in Beyond : g[u] = n}) = 0}

GroupDebts(g, n) ==
    RunCalc(SimplifiedStart(SelectSeq(users, LAMBDA u : u \in Beyond /\ g[u] = n),
                            balances)).debts

RECURSIVE GroupedDebts(_, _)
(* the settlement of grouping g: the suggestions of its groups 1..n *)
GroupedDebts(g, n) ==
    IF n = 0 THEN <<>> ELSE GroupedDebts(g, n - 1) \o GroupDebts(g, n)

Settles(ds) == \A u \in Range(users) : Residual(balances, ds, u) = 0

(* some proper part of the creditors has the total of some part of the debtors *)
ProperZeroSumGroup ==
    \E S \in SUBSET Beyond : S # {} /\ S # Beyond /\ SumOver(S) = 0

(* C5 as claimed: no set of direct transfers that settles the same balances
   has fewer transfers than getSimplifiedDebts emits *)
C5_Minimal ==
    (Done("simplified") /\ Settleable) =>
        \A g \in Groupings :
            LET ds == GroupedDebts(g, MaxGroups)
            IN  Settles(ds) => Len(calc.debts) <= Len(ds)

(* C5 as amended: when no proper part of the creditors has the total of a
   part of the debtors, getSimplifiedDebts settles the balances with exactly
   C + D - 1 transfers, and fewer cannot settle them: a settlement with fewer
   transfers leaves the users in two unconnected groups, each summing to zero *)
C5_MinimalWithoutZeroSumGroup ==
    (Done("simplified") /\ Settleable /\ Beyond # {} /\ ~ProperZeroSumGroup) =>
        /\ Settles(calc.debts)
        /\ Len(calc.debts) = Len(calc.creditors) + Len(calc.debtors) - 1

C5_Witness ==
    /\ Done("simplified") /\ Settleable /\ ~ProperZeroSumGroup
    /\ Len(calc.creditors) = 2 /\ Len(calc.debtors) = 2
    /\ Len(calc.debts) = 3

---------------------------------------------------------------------------
(* the users standing in a list of creditors or debtors *)
UsersIn(list) == {list[k].user : k \in DOMAIN list}

(* C11: getDebtSummary does not filter the balances by 0.01 before pairing:
   its creditors are exactly the users whose balance is above 0 and its
   debtors exactly those whose balance is below 0, the users within 0.01 of
   zero included *)
C11_NoEpsilonFilter ==
    Running("summary") =>
        /\ UsersIn(calc.creditors) = {u \in Range(users) : balances[u] > 0}
        /\ UsersIn(calc.debtors) = {u \in Range(users) : balances[u] < 0}

---------------------------------------------------------------------------
(* the sums of some user hold a negative one *)
NegativeSum ==
    \E u \in Range(users) :
        \E f \in {"totalPaid", "totalOwed", "totalPaymentsMade", "totalPaymentsReceived"} :
            LedgerSums[u][f] < 0

(* C12: when a per-user sum (paid, owed, payments sent, payments received)
   is negative, both computations fail with InvalidAmountError and return
   no list of suggestions *)
C12_InvalidAmountFailsFast ==
    NegativeSum =>
        /\ GetDebtSummary = [error |-> "InvalidAmountError"]
        /\ GetSimplifiedDebts = [error |-> "InvalidAmountError"]

---------------------------------------------------------------------------
RECURSIVE SumLeft(_)
(* the magnitude left in a list of creditors or debtors *)
SumLeft(list) ==
    IF list = <<>> THEN 0 ELSE Head(list).amount + SumLeft(Tail(list))

(* what the loop left unmatched, on whichever side *)
Unmatched(c) == SumLeft(c.creditors) + SumLeft(c.debtors)

(* the balances that the suggestions ds settle to zero exactly *)
SettledBy(ds) ==
    [u \in Range(users) |-> SumAs(ds, "creditor", u) - SumAs(ds, "debtor", u)]

(* C13: when getSimplifiedDebts ends with more than 0.01 unmatched on one
   side, what it returns reports that beside the partial list: it is never
   what the call returns for a ledger that its suggestions settle in full *)
C13_ResidualReported ==
    (Done("simplified") /\ Unmatched(calc) > Epsilon) =>
        CallResult(calc.debts) #
            CallResult(RunCalc(SimplifiedStart(users, SettledBy(calc.debts))).debts)

---------------------------------------------------------------------------
(* C14: two calls of getSimplifiedDebts on the same ledger, nothing written
   in between, return the same sequence of suggestions: same debtors,
   creditors, amounts and order *)
C14_Idempotent ==
    \A m \in DOMAIN returned, n \in DOMAIN returned :
        (returned[m].call = "simplified" /\ returned[n].call = "simplified")
            => returned[m].debts = returned[n].debts

C14_Witness ==
    /\ rpc = "done"
    /\ Len(returned) = 2
    /\ returned[1].call = "simplified" /\ returned[2].call = "simplified"
    /\ Len(returned[2].debts) = 2

---------------------------------------------------------------------------
(* the users who paid an expense *)
Payers == {r.payer_id : r \in ExpenseRows(expenses)}

(* C15: when one user P alone has paid expenses, every other user U owes a
   share s_U above 0.01 and there are no payments, getSimplifiedDebts
   returns one suggestion for each such U, from U to P for s_U, and no other
   (stated here for the ledgers none of whose sums is negative) *)
C15_OnePayerOneSuggestionEach ==
    \A P \in Range(users) :
        LET others == Range(users) \ {P}
        IN  (/\ rpc = "done" /\ rcall = "simplified"
             /\ NoPayments
             /\ ~NegativeSum
             /\ Payers = {P}
             /\ \A U \in others : Owed(U) > Epsilon)
            => /\ Len(calc.debts) = Cardinality(others)
               /\ \A U \in others :
                     \E k \in DOMAIN calc.debts :
                         calc.debts[k] = [debtor |-> U, creditor |-> P, amount |-> Owed(U)]

---------------------------------------------------------------------------
(* C16: getSimplifiedDebts and getDebtSummary return the empty sequence,
   and no error, when there are no users and when every balance is within
   0.01 of zero, +0.01 and -0.01 included *)
C16_EmptyResult ==
    (calc.pc = "done" /\ \A u \in Range(users) : Abs(balances[u]) <= Epsilon)
        => CallResult(calc.debts) = [error |-> "none", debts |-> <<>>]

C16_Witness ==
    /\ calc.pc = "done"
    /\ \A u \in Range(users) : Abs(balances[u]) <= Epsilon
    /\ \E u \in Range(users) : balances[u] = Epsilon
    /\ \E u \in Range(users) : balances[u] = -Epsilon
    /\ calc.debts = <<>>

---------------------------------------------------------------------------
(* C17: after any createPayment and deletePayment calls every stored
   payment goes from one user to another and has an amount above zero; a
   createPayment that breaks either condition stores nothing, so the
   payments change only by a row deleted or by such a row inserted *)
C17_StoredValid ==
    \A p \in PaymentIds :
        payments[p] # NoRow =>
            /\ payments[p].from_user_id # payments[p].to_user_id
            /\ payments[p].amount > 0

C17_Step ==
    \A p \in PaymentIds :
        payments'[p] # payments[p] =>
            \/ payments'[p] = NoRow
            \/ /\ payments[p] = NoRow
               /\ payments'[p].from_user_id # payments'[p].to_user_id
               /\ payments'[p].amount > 0
               /\ \A q \in PaymentIds \ {p} : payments'[q] = payments[q]

C17_PaymentsValid == [](C17_StoredValid) /\ [][C17_Step]_vars

C17_Witness ==
    /\ \A p \in PaymentIds : payments[p] # NoRow
    /\ \E p \in PaymentIds : payments[p].from_user_id = "C" /\ payments[p].to_user_id = "A"

---------------------------------------------------------------------------
(* The expense form (ExpenseForm.onSubmit): from the amount, the selected
   participants and the split type it computes the shares and posts them
   with the expense to POST /api/expenses.  Amounts are whole cents,
   percentages tenths of a percent, the amounts typed for an exact split
   thousandths (a field takes any decimal string). *)

FormAmounts == {10000, 100, 1}
Percentages == {1000, 500, 333, 334}
ExactAmounts == {100000, 1000, 500, 333, 334, 10}

SplitTypes == {"equal", "percentage", "exact"}

(* (num / den).toFixed(2) in cents: the nearest cent; the quotient half-way
   between two cents goes where the binary value of the quotient lies,
   either way *)
ToFixed(num, den, up) ==
    LET q == num \div den
        r == num % den
    IN  IF 2 * r > den \/ (2 * r = den /\ up) THEN q + 1 ELSE q

RECURSIVE SumOf(_)
(* reduce((sum, userId) => sum + parseFloat(entry[userId] || "0"), 0) *)
SumOf(f) ==
    IF DOMAIN f = {} THEN 0
    ELSE LET u == CHOOSE x \in DOMAIN f : TRUE
         IN  f[u] + SumOf([v \in DOMAIN f \ {u} |-> f[v]])

(* getValidationStatus().isValid *)
IsValid(splitType, amount, percentages, exactAmounts) ==
    CASE splitType = "percentage" -> Abs(SumOf(percentages) - 1000) < 1
      [] splitType = "exact"      -> Abs(amount * 10 - SumOf(exactAmounts)) < 10
      [] OTHER                    -> TRUE

(* the participants onSubmit builds *)
FormShares(splitType, amount, selected, percentages, exactAmounts, up) ==
    CASE splitType = "equal" ->
           LET u0 == CHOOSE u \in selected : TRUE
               amountPerPerson == ToFixed(amount, Cardinality(selected), up[u0])
           IN  [u \in selected |-> amountPerPerson]
      [] splitType = "percentage" ->
           [u \in selected |-> ToFixed(amount * percentages[u], 1000, up[u])]
      [] OTHER ->
           [u \in selected |-> ToFixed(exactAmounts[u], 10, up[u])]

(* onSubmit with a valid form, createExpenseMutation.mutate and the first
   write of createExpense that the request makes *)
SubmitExpenseForm(payerId, amount, selected, splitType, percentages, exactAmounts, up) ==
    /\ wpc = "idle" /\ HasFree(expenses)
    /\ selected # {}
    /\ IsValid(splitType, amount, percentages, exactAmounts)
    /\ CreateExpense(payerId, amount,
                     FormShares(splitType, amount, selected, percentages, exactAmounts, up))

(* the entries of a split type that is not the chosen one: left empty *)
NoEntries(selected) == [u \in selected |-> 0]

NextForm ==
    \/ \E payerId \in Range(users), amount \in FormAmounts, selected \in SUBSET Range(users) :
          \E up \in [selected -> BOOLEAN] :
             SubmitExpenseForm(payerId, amount, selected, "equal",
                               NoEntries(selected), NoEntries(selected), up)
    \/ \E payerId \in Range(users), amount \in FormAmounts, selected \in SUBSET Range(users) :
          \E percentages \in [selected -> Percentages], up \in [selected -> BOOLEAN] :
             SubmitExpenseForm(payerId, amount, selected, "percentage",
                               percentages, NoEntries(selected), up)
    \/ \E payerId \in Range(users), amount \in FormAmounts, selected \in SUBSET Range(users) :
          \E exactAmounts \in [selected -> ExactAmounts], up \in [selected -> BOOLEAN] :
             SubmitExpenseForm(payerId, amount, selected, "exact",
                               NoEntries(selected), exactAmounts, up)
    \/ InsertParticipants
    \/ \E id \in ExpenseIds : DeleteExpense(id)

SpecForm == Init /\ [][NextForm]_vars

(* C18: for an amount in whole cents and any selected participants, under
   each split type the shares the form sends sum to exactly the amount *)
C18_FormSharesSumToAmount ==
    wpc = "createExpense" =>
        SumOf(wargs.participants) = expenses[wargs.id].amount

---------------------------------------------------------------------------
(* JavaScript numbers.  Every amount the debt computations handle is a    *)
(* Number, an IEEE 754 binary64: parseFloat gives the binary64 nearest to  *)
(* the decimal string, and + and - give the binary64 nearest to the exact  *)
(* result, ties to the even significand.  A Number below 1 in magnitude is *)
(* held here as its sign and its binary fraction of FractionBits bits, in  *)
(* Limbs digits of LimbBits bits each, most significant first: every       *)
(* binary64 between 0.01 and 1 ends within 59 bits, and so do the sums and *)
(* differences of such Numbers.                                            *)

Precision == 53         \* bits of a binary64 significand
LimbBits  == 15         \* bits of one digit of a fraction
Limbs     == 4          \* digits of a fraction

Base         == 2 ^ LimbBits
FractionBits == Limbs * LimbBits

RECURSIVE Quotient(_, _, _)
(* the first n digits of the fraction num / den, for num < den *)
Quotient(num, den, n) ==
    IF n = 0 THEN <<>>
    ELSE <<(num * Base) \div den>> \o Quotient((num * Base) % den, den, n - 1)

RECURSIVE Remainder(_, _, _)
(* what the first n digits of num / den leave *)
Remainder(num, den, n) ==
    IF n = 0 THEN num ELSE Remainder((num * Base) % den, den, n - 1)

RECURSIVE AddCarry(_, _, _, _)
(* the digits 1..k of a + b, carry being the carry into digit k *)
AddCarry(a, b, k, carry) ==
    IF k = 0 THEN <<>>
    ELSE LET t == a[k] + b[k] + carry
         IN  Append(AddCarry(a, b, k - 1, t \div Base), t % Base)

AddMag(a, b) == AddCarry(a, b, Limbs, 0)

RECURSIVE SubBorrow(_, _, _, _)
(* the digits 1..k of a - b, for a >= b, borrow being the borrow from digit k *)
SubBorrow(a, b, k, borrow) ==
    IF k = 0 THEN <<>>
    ELSE LET t == a[k] - b[k] - borrow
         IN  Append(SubBorrow(a, b, k - 1, IF t < 0 THEN 1 ELSE 0), (t + Base) % Base)

SubMag(a, b) == SubBorrow(a, b, Limbs, 0)

LessMag(a, b) ==
    \E k \in 1..Limbs : a[k] < b[k] /\ \A j \in 1..(k - 1) : a[j] = b[j]

ZeroMag == [k \in 1..Limbs |-> 0]

(* the number of bits of a digit: 0 for 0 *)
BitLength(x) == CHOOSE n \in 0..LimbBits : x < 2 ^ n /\ (n = 0 \/ 2 ^ (n - 1) <= x)

(* the position, among the FractionBits bits, of the first 1 of m # ZeroMag *)
LeadingOne(m) ==
    LET k == CHOOSE i \in 1..Limbs : m[i] # 0 /\ \A j \in 1..(i - 1) : m[j] = 0
    IN  k * LimbBits - BitLength(m[k]) + 1

(* round to nearest, ties to even: the Precision bits from the first 1 are
   kept; sticky says that the exact value has more beyond the bits of m *)
RoundNearestEven(m, sticky) ==
    IF m = ZeroMag THEN m
    ELSE LET drop == FractionBits - (LeadingOne(m) + Precision - 1)
         IN  IF drop <= 0 THEN m
             ELSE LET unit == 2 ^ drop
                      q    == m[Limbs] \div unit
                      r    == m[Limbs] % unit
                      half == unit \div 2
                      up   == r > half \/ (r = half /\ (sticky \/ q % 2 = 1))
                      low  == (IF up THEN q + 1 ELSE q) * unit
                  IN  IF low < Base THEN [m EXCEPT ![Limbs] = low]
                      ELSE AddMag([m EXCEPT ![Limbs] = 0],
                                  [k \in 1..Limbs |-> IF k = Limbs - 1 THEN 1 ELSE 0])

FloatZero == [neg |-> FALSE, mag |-> ZeroMag]

(* parseFloat of the decimal string of a number of cents, 0.01 to 0.99 in
   magnitude, or 0 *)
ParseFloat(cents) ==
    IF cents = 0 THEN FloatZero
    ELSE [neg |-> cents < 0,
          mag |-> RoundNearestEven(Quotient(Abs(cents), 100, Limbs),
                                   Remainder(Abs(cents), 100, Limbs) # 0)]

(* x + y *)
FloatAdd(x, y) ==
    IF x.neg = y.neg
      THEN [neg |-> x.neg, mag |-> RoundNearestEven(AddMag(x.mag, y.mag), FALSE)]
    ELSE IF x.mag = y.mag THEN FloatZero
    ELSE IF LessMag(y.mag, x.mag)
      THEN [neg |-> x.neg, mag |-> RoundNearestEven(SubMag(x.mag, y.mag), FALSE)]
    ELSE [neg |-> y.neg, mag |-> RoundNearestEven(SubMag(y.mag, x.mag), FALSE)]

(* x - y *)
FloatSub(x, y) == FloatAdd(x, [neg |-> ~y.neg, mag |-> y.mag])

(* x > y *)
FloatGreater(x, y) ==
    IF x.neg # y.neg THEN y.neg /\ (x.mag # ZeroMag \/ y.mag # ZeroMag)
    ELSE IF x.neg THEN LessMag(x.mag, y.mag)
    ELSE LessMag(y.mag, x.mag)

---------------------------------------------------------------------------
(* The balances as the code computes them, in Numbers, on a ledger of a    *)
(* few cents: an expense of 0.07 with shares of 0.06 and 0.01.             *)

FloatAmounts == {7}
FloatShares  == {6, 1}

RECURSIVE FloatSum(_)
(* reduce((sum, row) => sum + parseFloat(row.amount), 0) *)
FloatSum(rows) ==
    IF rows = {} THEN FloatZero
    ELSE LET r == CHOOSE x \in rows : TRUE
         IN  FloatAdd(FloatSum(rows \ {r}), ParseFloat(r.amount))

(* the balance of lines 610 and 683 *)
FloatBalance(call, u) ==
    LET totalPaid             == FloatSum(PaidExpenses(u))
        totalOwed             == FloatSum(OwedParticipations(u))
        totalPaymentsMade     == FloatSum(PaymentsMade(u))
        totalPaymentsReceived == FloatSum(PaymentsReceived(u))
    IN  IF call = "summary"
          THEN FloatSub(FloatSub(totalPaid, totalPaymentsReceived),
                        FloatSub(totalOwed, totalPaymentsMade))
        ELSE FloatSub(totalPaid, totalOwed)

(* balance > 0.01 and balance < -0.01 *)
FloatIsCreditor(balance) == FloatGreater(balance, ParseFloat(1))
FloatIsDebtor(balance)   == FloatGreater(ParseFloat(-1), balance)

(* the for loop over the users of one call, nothing written meanwhile:
   balances holds the Numbers the call computes *)
FloatCall(call) ==
    /\ rpc = "idle"
    /\ rcall' = call
    /\ rpc' = "done"
    /\ balances' = [u \in Range(users) |-> FloatBalance(call, u)]
    /\ UNCHANGED <<users, userVars, response, ledgerVars, ridx, totals, seen, writes, returned, calc>>

InitFloat == DrawnLedger(FloatAmounts, FloatShares)

NextFloat == \E call \in {"summary", "simplified"} : FloatCall(call)

SpecFloat == InitFloat /\ [][NextFloat]_vars

(* C19: the balances are computed in exact decimal arithmetic, so on a
   ledger of cent amounts each computed balance is the one exact cent
   arithmetic gives: it lies above 0.01, or below -0.01, exactly when the
   exact balance does *)
C19_ExactDecimalArithmetic ==
    rpc = "done" =>
        \A u \in Range(users) :
            LET exact == BalancesOf(rcall)[u]
            IN  /\ FloatIsCreditor(balances[u]) <=> IsCreditor(exact)
                /\ FloatIsDebtor(balances[u]) <=> IsDebtor(exact)

---------------------------------------------------------------------------
(* C20: getSimplifiedDebts puts a user among the creditors exactly when the
   balance is > 0.01 and among the debtors, with the magnitude, exactly
   when it is < -0.01; each list is in descending order of magnitude, users
   of equal magnitude in the order of the user list; so the first
   suggestion pairs the largest debtor with the largest creditor *)

(* the place of user u in the user list *)
PositionOf(u) == CHOOSE k \in DOMAIN users : users[k] = u

(* list holds exactly the users of the set, each once, with these amounts *)
HoldsExactly(list, set, amountOf(_)) ==
    /\ Len(list) = Cardinality(set)
    /\ {list[k].user : k \in DOMAIN list} = set
    /\ \A k \in DOMAIN list : list[k].amount = amountOf(list[k].user)

(* descending, ties in the order of the user list *)
OrderedDesc(list) ==
    \A k, l \in DOMAIN list :
        k < l => \/ list[k].amount > list[l].amount
                 \/ /\ list[k].amount = list[l].amount
                    /\ PositionOf(list[k].user) < PositionOf(list[l].user)

(* the first user, in the order of the list, of the largest magnitude *)
Largest(set) ==
    CHOOSE u \in set :
        \A v \in set \ {u} :
            \/ Abs(balances[u]) > Abs(balances[v])
            \/ Abs(balances[u]) = Abs(balances[v]) /\ PositionOf(u) < PositionOf(v)

CreditorUsers == {u \in Range(users) : balances[u] > Epsilon}
DebtorUsers   == {u \in Range(users) : balances[u] < -Epsilon}

C20_PartitionAndOrder ==
    calc.call = "simplified" =>
        /\ calc.debts = <<>> =>
              /\ HoldsExactly(calc.creditors, CreditorUsers, LAMBDA u : balances[u])
              /\ HoldsExactly(calc.debtors, DebtorUsers, LAMBDA u : -balances[u])
              /\ OrderedDesc(calc.creditors)
              /\ OrderedDesc(calc.debtors)
        /\ calc.debts # <<>> =>
              /\ calc.debts[1].debtor = Largest(DebtorUsers)
              /\ calc.debts[1].creditor = Largest(CreditorUsers)

(* two largest creditors tied, two largest debtors tied, neither pair first
   in the user list, and a user within 0.01 dropped *)
C20_Witness ==
    /\ calc.call = "simplified"
    /\ calc.pc = "done"
    /\ balances = [A |-> Epsilon, B |-> 3, C |-> -2, D |-> 3, E |-> -2]
    /\ calc.debts[1] = [debtor |-> "C", creditor |-> "B", amount |-> 2]

---------------------------------------------------------------------------
(* C21: the matching loop of getSimplifiedDebts terminates on every
   balance set, those whose credit and debt differ included: a pass of the
   loop moves a cursor forward and neither cursor passes the end of its
   list, and a loop that has started reaches its return *)

(* a loop that is running keeps running: nothing else stops the function *)
SpecDebtsFair == SpecDebts /\ WF_vars(LoopIteration)

C21_CursorMoves ==
    (calc.call = "simplified" /\ calc.pc = "loop") =>
        /\ calc'.i + calc'.j > calc.i + calc.j
        /\ calc'.i <= Len(calc.creditors)
        /\ calc'.j <= Len(calc.debtors)

C21_Terminates ==
    /\ [][C21_CursorMoves]_vars
    /\ (calc.call = "simplified" /\ calc.pc = "loop") ~> (calc.pc = "done")

(* a loop of several passes that returned on balances which do not sum to 0 *)
C21_Witness ==
    /\ calc.call = "simplified"
    /\ calc.pc = "done"
    /\ Len(calc.debts) >= 2
    /\ SumBalances(users, balances) # 0

---------------------------------------------------------------------------
(* C22: when getSimplifiedDebts returns, 0.01 or more is left unmatched on
   one side at most: every creditor's remaining magnitude is below 0.01, or
   every debtor's is *)
C22_ResidualOnOneSide ==
    Done("simplified") =>
        \/ \A k \in DOMAIN calc.creditors : calc.creditors[k].amount < Epsilon
        \/ \A k \in DOMAIN calc.debtors : calc.debtors[k].amount < Epsilon

(* a call that matched something and returned with creditors left over *)
C22_Witness ==
    /\ Done("simplified")
    /\ calc.debts # <<>>
    /\ \E k \in DOMAIN calc.creditors : calc.creditors[k].amount >= Epsilon
    /\ \A k \in DOMAIN calc.debtors : calc.debtors[k].amount < Epsilon

---------------------------------------------------------------------------
(* C23: getDebtSummary emits its suggestions debtor by debtor in the order
   of the user list and, for one debtor, creditor by creditor in that
   order; each is the smaller of what its debtor still owes and what its
   creditor is still owed; and a debtor stops being allocated only when
   its remaining debt has reached zero or no creditor has credit left *)

(* what debtor d still owes, creditor c is still owed, after suggestions ds *)
RemainingDebt(d, ds)   == -balances[d] - SumAs(ds, "debtor", d)
RemainingCredit(c, ds) == balances[c] - SumAs(ds, "creditor", c)

C23_EmittedInOrder ==
    \A k, l \in DOMAIN calc.debts :
        k < l =>
            LET a == calc.debts[k]
                b == calc.debts[l]
            IN  \/ PositionOf(a.debtor) < PositionOf(b.debtor)
                \/ /\ a.debtor = b.debtor
                   /\ PositionOf(a.creditor) < PositionOf(b.creditor)

C23_EachStepMin ==
    \A k \in DOMAIN calc.debts :
        LET before == SubSeq(calc.debts, 1, k - 1)
            d      == calc.debts[k]
        IN  d.amount = Min(RemainingDebt(d.debtor, before),
                           RemainingCredit(d.creditor, before))

C23_StopsOnlyWhenDone ==
    \A k \in DOMAIN calc.debtors :
        \/ RemainingDebt(calc.debtors[k].user, calc.debts) = 0
        \/ \A l \in DOMAIN calc.creditors :
              RemainingCredit(calc.creditors[l].user, calc.debts) = 0

C23_DebtorByDebtor ==
    /\ Running("summary") => C23_EmittedInOrder /\ C23_EachStepMin
    /\ Done("summary") => C23_StopsOnlyWhenDone

---------------------------------------------------------------------------
(* POST /api/expenses: the body is parsed against expenseValidation, and
   createExpense runs on a body that passes.  A description is held as the
   sequence of its characters. *)

Descriptions == {<<>>, <<"p", "a", "n">>}

(* the amounts of the bodies posted *)
PostedAmounts == {1000}

(* the participants of a body that lists none *)
NoParticipants == [u \in {} |-> 0]

PostedParticipants == ParticipantInputs \cup {NoParticipants}

(* mutant: the schema without its two .min(1) *)
ExpenseValidationNoMin(description, parts) == TRUE

(* description: z.string().min(1), participants: z.array(...).min(1) *)
ExpenseValidation(description, parts) ==
    Len(description) >= 1 /\ Cardinality(DOMAIN parts) >= 1

(* the handler up to its first await that writes, or to its answer when
   parse throws a ZodError: status 400 *)
PostExpenses(description, payerId, amount, parts) ==
    /\ wpc = "idle"
    /\ IF ExpenseValidation(description, parts)
         THEN CreateExpense(payerId, amount, parts)
         ELSE /\ response' = 400
              /\ UNCHANGED <<users, userVars, ledgerVars, readerVars, balances, calc>>

NextPost ==
    \/ \E d \in Descriptions, u \in Range(users), a \in PostedAmounts,
          ps \in PostedParticipants : PostExpenses(d, u, a, ps)
    \/ InsertParticipants
    \/ WriteError
    \/ \E id \in ExpenseIds : DeleteExpense(id)

SpecPost == Init /\ [][NextPost]_vars

(* C24: a POST /api/expenses request whose participants list is empty, or
   whose description is empty, is answered with status 400 and creates no
   expense row and no participant row *)
C24_Step ==
    \A d \in Descriptions, u \in Range(users), a \in PostedAmounts,
       ps \in PostedParticipants :
        ((d = <<>> \/ ps = NoParticipants) /\ PostExpenses(d, u, a, ps)) =>
            /\ response' = 400
            /\ expenses' = expenses
            /\ participants' = participants

C24_EmptyRejected == [][C24_Step]_vars

(* a rejected request on a ledger that holds an expense and its shares *)
C24_Witness ==
    /\ response = 400
    /\ expenses[1] # NoRow
    /\ \E r \in participants : r.expense_id = 1
    /\ wpc = "idle"

---------------------------------------------------------------------------
(* Marking a debt of the list as paid (markAsPaidMutation): the client
   posts a payment of the listed amount from the debtor to the creditor and
   fetches the list again.  The expenses are any whose sums leave each user
   the drawn balance totalPaid - totalOwed; the payments are those stored. *)

(* the four sums of user u when the payments table is pays *)
SumsOn(pays, u) ==
    [totalPaid             |-> IF balances[u] > 0 THEN balances[u] ELSE 0,
     totalOwed             |-> IF balances[u] < 0 THEN -balances[u] ELSE 0,
     totalPaymentsMade     |-> SumAmounts({r \in PaymentRows(pays) : r.from_user_id = u}),
     totalPaymentsReceived |-> SumAmounts({r \in PaymentRows(pays) : r.to_user_id = u})]

(* what getDebtSummary returns when the payments table is pays *)
SummaryOn(pays) ==
    RunCalc(SummaryStart(users,
                         [u \in Range(users) |-> SummaryBalance(SumsOn(pays, u))])).debts

(* what GET /api/debts answers on the ledger as it stands *)
SummaryNow == SummaryOn(payments)

(* handleMarkAsPaid(debt) on entry k of the list shown, to the stored row *)
MarkAsPaid(k) ==
    LET debts == SummaryNow
    IN  /\ k \in DOMAIN debts
        /\ CreatePayment(debts[k].debtor, debts[k].creditor, debts[k].amount)

(* the balances the expenses leave: within 0.01 of zero, and beyond *)
PaidBalances == {-4, -3, -1, 0, 1, 2, 4}

InitPaid ==
    /\ users = FiveUsers
    /\ EmptyLedger
    /\ IdleReader
    /\ IdleUsers
    /\ balances \in [Range(users) -> PaidBalances]
    /\ calc = IdleCalc

NextPaid ==
    \/ \E k \in 1..Len(users) : MarkAsPaid(k)
    \/ \E id \in PaymentIds : DeletePayment(id)

SpecPaid == InitPaid /\ [][NextPaid]_vars

(* the list without its entry k *)
Without(list, k) == SubSeq(list, 1, k - 1) \o SubSeq(list, k + 1, Len(list))

(* C25: when getDebtSummary lists (debtor D, creditor C, amount p) and a
   payment of p from D to C is recorded, nothing else written, the next
   getDebtSummary is the list before without that entry: every other entry
   with its debtor, creditor and amount, in the same order *)
C25_Step ==
    LET before == SummaryNow
    IN  \A k \in DOMAIN before :
            MarkAsPaid(k) => SummaryOn(payments') = Without(before, k)

C25_PaidDebtRemoved == [][C25_Step]_vars

(* a payment recorded for one entry of a list of several: debts remain *)
C25_Witness ==
    /\ \E p \in PaymentIds : payments[p] # NoRow
    /\ Len(SummaryNow) >= 3

---------------------------------------------------------------------------
(* C26: for C >= 1 creditors and D >= 1 debtors getDebtSummary emits at
   most C + D - 1 suggestions: every suggestion leaves its debtor or its
   creditor with nothing, and a party left with nothing is in no later
   suggestion *)
C26_EachExhausts ==
    \A k \in DOMAIN calc.debts :
        LET upto == SubSeq(calc.debts, 1, k)
            d    == calc.debts[k]
        IN  \/ /\ RemainingDebt(d.debtor, upto) = 0
               /\ \A l \in DOMAIN calc.debts : l > k => calc.debts[l].debtor # d.debtor
            \/ /\ RemainingCredit(d.creditor, upto) = 0
               /\ \A l \in DOMAIN calc.debts : l > k => calc.debts[l].creditor # d.creditor

C26_SummaryAtMostCPlusDMinus1 ==
    Running("summary") =>
        /\ C26_EachExhausts
        /\ (Len(calc.creditors) >= 1 /\ Len(calc.debtors) >= 1)
              => Len(calc.debts) <= Len(calc.creditors) + Len(calc.debtors) - 1

(* the bound reached: 2 creditors, 3 debtors, 4 suggestions *)
C26_Witness ==
    /\ Done("summary")
    /\ Len(calc.creditors) = 2 /\ Len(calc.debtors) = 3
    /\ Len(calc.debts) = 4

---------------------------------------------------------------------------
(* C27: createExpense is all or nothing: when it fails, the ledger holds
   neither the new expense row nor any participant row of it, so no reader
   sees an expense that credits its payer and has no participant shares:
   once POST /api/expenses has answered 500, every expense row of the
   ledger has a participant row *)
C27_AllOrNothing ==
    (wpc = "idle" /\ response = 500) =>
        \A e \in ExpenseIds :
            expenses[e] # NoRow => \E r \in participants : r.expense_id = e

---------------------------------------------------------------------------
(* POST /api/initialize on a database without users.  Every await of the
   handler is a step: the first getUsers, then one createUser for each of
   the predefined users; the last getUsers and the answer change nothing
   and go with the last createUser.  The form sends the request whenever
   it is mounted, so requests of several clients overlap. *)

MaxInits == 2           \* POST /api/initialize requests

InitRequests == 1..MaxInits

(* predefinedUsers, by their initials *)
PredefinedUsers == <<"JG", "ML", "CR", "AM">>

InitUsers ==
    /\ users = <<>>
    /\ profile = [u \in {} |-> 0]
    /\ EmptyLedger
    /\ IdleReader
    /\ balances = [u \in {} |-> 0]
    /\ calc = IdleCalc
    /\ ipc = [r \in InitRequests |-> [pc |-> "idle", k |-> 0]]
    /\ tpc = <<>>
    /\ response = 0

(* const existingUsers = await storage.getUsers();
   if (existingUsers.length === 0) ... else "Users already exist" *)
InitializeStart(r) ==
    /\ ipc[r].pc = "idle"
    /\ ipc' = [ipc EXCEPT ![r] = IF Len(users) = 0 THEN [pc |-> "create", k |-> 1]
                                 ELSE [pc |-> "done", k |-> 0]]
    /\ UNCHANGED <<users, profile, tpc, response, ledgerVars, readerVars, balances, calc>>

(* await storage.createUser(userData): a row with a new id; the table has
   no unique constraint on the name *)
InitializeCreate(r) ==
    /\ ipc[r].pc = "create"
    /\ LET id == Len(users) + 1
       IN  /\ users' = Append(users, id)
           /\ profile' = [u \in DOMAIN profile \cup {id} |->
                            IF u = id THEN [name |-> PredefinedUsers[ipc[r].k], active |-> TRUE]
                            ELSE profile[u]]
    /\ ipc' = [ipc EXCEPT ![r] = IF ipc[r].k = Len(PredefinedUsers)
                                   THEN [pc |-> "done", k |-> 0]
                                 ELSE [pc |-> "create", k |-> ipc[r].k + 1]]
    /\ UNCHANGED <<tpc, response, ledgerVars, readerVars, balances, calc>>

(* createUser throws: the handler answers 500 and the rows it created stay *)
InitializeError(r) ==
    /\ ipc[r].pc = "create"
    /\ ipc' = [ipc EXCEPT ![r] = [pc |-> "failed", k |-> 0]]
    /\ UNCHANGED <<users, profile, tpc, response, ledgerVars, readerVars, balances, calc>>

NextUsers ==
    \E r \in InitRequests :
        InitializeStart(r) \/ InitializeCreate(r) \/ InitializeError(r)

SpecUsers == InitUsers /\ [][NextUsers]_vars

(* C28: after any number of POST /api/initialize requests on a database
   without users, overlapping ones included, exactly the four predefined
   users exist (stated for the requests that have all answered without an
   error), and a request that finds users creates none *)
C28_Answered ==
    /\ \A r \in InitRequests : ipc[r].pc \in {"idle", "done"}
    /\ \E r \in InitRequests : ipc[r].pc = "done"

C28_FourUsers ==
    C28_Answered =>
        /\ Len(users) = Len(PredefinedUsers)
        /\ \A k \in DOMAIN PredefinedUsers :
              \E u \in Range(users) : profile[u].name = PredefinedUsers[k]

C28_Step ==
    \A r \in InitRequests :
        (ipc[r].pc = "idle" /\ ipc'[r].pc # "idle" /\ Len(users) > 0) =>
            users' = users /\ ipc'[r].pc = "done"

C28_InitializedOnce == [](C28_FourUsers) /\ [][C28_Step]_vars

---------------------------------------------------------------------------
(* toggleUserActive (PATCH /api/users/:id/toggle): a select of the flag,
   then an update that writes the opposite of what was read.  The two are
   separate requests to the database, so calls interleave. *)

MaxToggles == 2         \* toggleUserActive calls

ToggleCalls == 1..MaxToggles

InitToggle ==
    /\ users = LedgerUsers
    /\ profile = [u \in Range(users) |-> [name |-> u, active |-> TRUE]]
    /\ EmptyLedger
    /\ IdleReader
    /\ balances = [u \in {} |-> 0]
    /\ calc = IdleCalc
    /\ ipc = <<>>
    /\ tpc = [c \in ToggleCalls |-> [pc |-> "idle", id |-> "none", active |-> TRUE]]
    /\ response = 0

(* select('active').eq('id', id).single() *)
ToggleSelect(c, id) ==
    /\ tpc[c].pc = "idle"
    /\ tpc' = [tpc EXCEPT ![c] = [pc |-> "selected", id |-> id,
                                  active |-> profile[id].active]]
    /\ UNCHANGED <<users, profile, ipc, response, ledgerVars, readerVars, balances, calc>>

(* currentUser.active ? 0 : 1 *)
Toggled(c) == ~tpc[c].active

(* update({ active: ... }).eq('id', id) *)
ToggleUpdate(c) ==
    /\ tpc[c].pc = "selected"
    /\ profile' = [profile EXCEPT ![tpc[c].id].active = Toggled(c)]
    /\ tpc' = [tpc EXCEPT ![c].pc = "done"]
    /\ UNCHANGED <<users, ipc, response, ledgerVars, readerVars, balances, calc>>

(* if (error) throw error: the update is not made, the route answers 500 *)
ToggleError(c) ==
    /\ tpc[c].pc = "selected"
    /\ tpc' = [tpc EXCEPT ![c].pc = "failed"]
    /\ UNCHANGED <<users, profile, ipc, response, ledgerVars, readerVars, balances, calc>>

NextToggle ==
    \/ \E c \in ToggleCalls, id \in Range(users) : ToggleSelect(c, id)
    \/ \E c \in ToggleCalls : ToggleUpdate(c)
    \/ \E c \in ToggleCalls : ToggleError(c)

SpecToggle == InitToggle /\ [][NextToggle]_vars

(* C29: a completed call of toggleUserActive flips the flag once: after
   two completed calls on one user, one after the other or interleaved,
   the flag is what it was at first (every user starts active) *)
Completed(u) == {c \in ToggleCalls : tpc[c].pc = "done" /\ tpc[c].id = u}

C29_TwoTogglesRestore ==
    \A u \in Range(users) :
        Cardinality(Completed(u)) = 2 => profile[u].active = TRUE

===========================================================================
